---------------------------- MODULE Spec2Model ----------------------------
(***************************************************************************)
(* The catalog data model of locallibrary (catalog/models.py): the Author, *)
(* Book and BookInstance tables, the field options that decide what a      *)
(* validated save stores, the on_delete rules, the default ordering of     *)
(* BookInstance queries, and the __str__ / get_absolute_url helpers.       *)
(*                                                                         *)
(* Text is a sequence of one-character strings, so that lengths,           *)
(* formatting and concatenation are computed.  A nullable column holds     *)
(* None (the empty tuple) or Some(v) (the one-element tuple).              *)
(***************************************************************************)
EXTENDS Integers, Sequences, FiniteSets, TLC

VARIABLES authors, books, instances, authorSeq, bookSeq, out

vars == <<authors, books, instances, authorSeq, bookSeq, out>>

(***************************************************************************)
(* Bounds of the model.                                                    *)
(***************************************************************************)
MaxAuthors == 1
MaxBooks == 1
MaxCopies == 1
MaxSeq == 2
MaxInstances == 2
NumUUIDs == 3
MaxDate == 2
MaxRows == 2

(***************************************************************************)
(* Values.                                                                 *)
(***************************************************************************)
None == <<>>
Some(v) == <<v>>
IsNone(x) == x = <<>>
Val(x) == x[1]

Dates == 1..MaxDate
OptDates == {None} \cup {Some(d) : d \in Dates}

Rep(c, n) == [i \in 1..n |-> c]

(***************************************************************************)
(* str(int): the decimal digits of a non-negative integer.                 *)
(***************************************************************************)
Digit(d) == <<"0", "1", "2", "3", "4", "5", "6", "7", "8", "9">>[d + 1]

RECURSIVE IntStr(_)
IntStr(n) == IF n < 10 THEN <<Digit(n)>>
             ELSE IntStr(n \div 10) \o <<Digit(n % 10)>>

(***************************************************************************)
(* uuid.uuid4 and str(UUID).  A UUID is its 32 hexadecimal digits, most    *)
(* significant first; a version 4 UUID has digit 13 = 4 and digit 17 in    *)
(* 8..11.  The model draws from NumUUIDs such values, which differ in      *)
(* their last two digits.  str inserts the dashes 8-4-4-4-12.              *)
(***************************************************************************)
Hex(d) == <<"0", "1", "2", "3", "4", "5", "6", "7", "8", "9",
            "a", "b", "c", "d", "e", "f">>[d + 1]

uuid4(n) == [i \in 1..32 |-> CASE i = 13 -> 4
                               [] i = 17 -> 8 + (n % 4)
                               [] i = 31 -> (n \div 16) % 16
                               [] i = 32 -> n % 16
                               [] OTHER -> 0]

UUIDs == {uuid4(n) : n \in 1..NumUUIDs}

HexRun(u, from, to) == [i \in 1..(to - from + 1) |-> Hex(u[from + i - 1])]

UUIDStr(u) == HexRun(u, 1, 8) \o <<"-">> \o HexRun(u, 9, 12) \o <<"-">>
              \o HexRun(u, 13, 16) \o <<"-">> \o HexRun(u, 17, 20) \o <<"-">>
              \o HexRun(u, 21, 32)

(***************************************************************************)
(* str.format with positional replacement fields: '{n}' is replaced by     *)
(* args[n] (counted from 0), any other character is copied.                *)
(***************************************************************************)
DigitVal(c) == CHOOSE d \in 0..9 : Digit(d) = c
IsDigit(c) == \E d \in 0..9 : Digit(d) = c

RECURSIVE FieldEnd(_, _)
FieldEnd(t, i) == IF t[i] = "}" THEN i ELSE FieldEnd(t, i + 1)

RECURSIVE FieldIndex(_, _, _, _)
FieldIndex(t, i, j, acc) ==
    IF i >= j THEN acc
    ELSE FieldIndex(t, i + 1, j, 10 * acc + DigitVal(t[i]))

RECURSIVE FormatFrom(_, _, _)
FormatFrom(t, i, args) ==
    IF i > Len(t) THEN <<>>
    ELSE IF t[i] = "{"
         THEN LET j == FieldEnd(t, i + 1)
              IN  args[FieldIndex(t, i + 1, j, 0) + 1] \o FormatFrom(t, j + 1, args)
         ELSE <<t[i]>> \o FormatFrom(t, i + 1, args)

Format(t, args) == FormatFrom(t, 1, args)

(***************************************************************************)
(* Field options.  A CharField accepts a value when full_clean passes:     *)
(* with blank=True the empty value skips every check; otherwise the value  *)
(* is not empty, is one of the choices (when there are choices) and is no  *)
(* longer than max_length.                                                 *)
(***************************************************************************)
TITLE_MAX_LENGTH == 200
ISBN_MAX_LENGTH == 13
NAME_MAX_LENGTH == 100
IMPRINT_MAX_LENGTH == 200
STATUS_MAX_LENGTH == 1

LOAN_STATUS == <<<< <<"m">>, "Maintenance" >>, << <<"o">>, "On loan" >>,
                 << <<"a">>, "Available" >>, << <<"r">>, "Reserved" >>>>

StatusChoices == {LOAN_STATUS[i][1] : i \in DOMAIN LOAN_STATUS}

\* default='a'.
StatusDefaultAvailable == <<"a">>

STATUS_DEFAULT == <<"m">>

CharFieldClean(value, max_length, choices, blank) ==
    \/ blank /\ value = <<>>
    \/ /\ value # <<>>
       /\ choices # {} => value \in choices
       /\ Len(value) <= max_length

TitleClean(v) == CharFieldClean(v, TITLE_MAX_LENGTH, {}, FALSE)
IsbnClean(v) == CharFieldClean(v, ISBN_MAX_LENGTH, {}, FALSE)
NameClean(v) == CharFieldClean(v, NAME_MAX_LENGTH, {}, FALSE)
ImprintClean(v) == CharFieldClean(v, IMPRINT_MAX_LENGTH, {}, FALSE)
StatusClean(v) == CharFieldClean(v, STATUS_MAX_LENGTH, StatusChoices, TRUE)

(***************************************************************************)
(* Rows and keys.                                                          *)
(***************************************************************************)
Ids(table) == {r.id : r \in table}
Row(table, id) == CHOOSE r \in table : r.id = id

\* A ForeignKey with null=True: None, or the key of a row of the table.
ForeignKeyClean(ref, table) == IF IsNone(ref) THEN TRUE ELSE Val(ref) \in Ids(table)

AuthorClean(a) == NameClean(a.first_name) /\ NameClean(a.last_name)

BookClean(b) ==
    /\ TitleClean(b.title)
    /\ IsbnClean(b.isbn)
    /\ b.summary # <<>>
    /\ ForeignKeyClean(b.author, authors)

BookInstanceClean(c) ==
    /\ ImprintClean(c.imprint)
    /\ StatusClean(c.status)
    /\ ForeignKeyClean(c.book, books)

(***************************************************************************)
(* Author: create (AutoField key from the table's sequence), delete.       *)
(* Deleting an author sets Book.author to NULL (on_delete=SET_NULL).       *)
(***************************************************************************)
CreateAuthor(first, last, born, died) ==
    LET a == [id |-> authorSeq + 1, first_name |-> first, last_name |-> last,
              date_of_birth |-> born, date_of_death |-> died]
    IN  /\ AuthorClean(a)
        /\ authors' = authors \cup {a}
        /\ authorSeq' = authorSeq + 1
        /\ out' = [op |-> "Author.create", self |-> a.id]
        /\ UNCHANGED <<books, instances, bookSeq>>

\* on_delete=DO_NOTHING.
BookOnAuthorDeleteDoNothing(b, id) == b

BookOnAuthorDelete(b, id) ==
    IF b.author = Some(id) THEN [b EXCEPT !.author = None] ELSE b

DeleteAuthor(id) ==
    /\ id \in Ids(authors)
    /\ authors' = {a \in authors : a.id # id}
    /\ books' = {BookOnAuthorDelete(b, id) : b \in books}
    /\ out' = [op |-> "Author.delete", self |-> id]
    /\ UNCHANGED <<instances, authorSeq, bookSeq>>

(***************************************************************************)
(* Book: create, delete.  Deleting a book sets BookInstance.book to NULL.  *)
(***************************************************************************)
CreateBook(title, author, summary, isbn) ==
    LET b == [id |-> bookSeq + 1, title |-> title, author |-> author,
              summary |-> summary, isbn |-> isbn]
    IN  /\ BookClean(b)
        /\ books' = books \cup {b}
        /\ bookSeq' = bookSeq + 1
        /\ out' = [op |-> "Book.create", self |-> b.id]
        /\ UNCHANGED <<authors, instances, authorSeq>>

InstanceOnBookDelete(c, id) ==
    IF c.book = Some(id) THEN [c EXCEPT !.book = None] ELSE c

DeleteBook(id) ==
    /\ id \in Ids(books)
    /\ books' = {b \in books : b.id # id}
    /\ instances' = {InstanceOnBookDelete(c, id) : c \in instances}
    /\ out' = [op |-> "Book.delete", self |-> id]
    /\ UNCHANGED <<authors, authorSeq, bookSeq>>

(***************************************************************************)
(* BookInstance: create, status update, delete.  The key is uuid.uuid4()   *)
(* and is the primary key: an insert whose key is already in the table is  *)
(* refused.  Status is the given one, or the default when none is given.   *)
(***************************************************************************)
\* The key column without primary_key=True.
PrimaryKeyUnchecked(id) == TRUE

PrimaryKeyFree(id) == id \notin Ids(instances)

StatusOrDefault(status) == IF IsNone(status) THEN STATUS_DEFAULT ELSE Val(status)

CreateBookInstance(id, book, imprint, due_back, status) ==
    LET c == [id |-> id, book |-> book, imprint |-> imprint,
              due_back |-> due_back, status |-> StatusOrDefault(status)]
    IN  /\ PrimaryKeyFree(id)
        /\ BookInstanceClean(c)
        /\ instances' = instances \cup {c}
        /\ out' = [op |-> "BookInstance.create", self |-> id,
                   value |-> ~IsNone(status)]
        /\ UNCHANGED <<authors, books, authorSeq, bookSeq>>

\* A status update that also clears the due date of a copy made available.
WithStatusClearingDueBack(c, status) ==
    IF status = <<"a">> THEN [c EXCEPT !.status = status, !.due_back = None]
    ELSE [c EXCEPT !.status = status]

WithStatus(c, status) == [c EXCEPT !.status = status]

UpdateStatus(id, status) ==
    /\ id \in Ids(instances)
    /\ LET old == Row(instances, id)
           new == WithStatus(old, status)
       IN  /\ BookInstanceClean(new)
           /\ instances' = (instances \ {old}) \cup {new}
           /\ out' = [op |-> "BookInstance.save", self |-> id,
                      value |-> old.status]
    /\ UNCHANGED <<authors, books, authorSeq, bookSeq>>

DeleteBookInstance(id) ==
    /\ id \in Ids(instances)
    /\ instances' = {c \in instances : c.id # id}
    /\ out' = [op |-> "BookInstance.delete", self |-> id]
    /\ UNCHANGED <<authors, books, authorSeq, bookSeq>>

(***************************************************************************)
(* BookInstance queries.  Meta.ordering = ["due_back"] orders a query that *)
(* gives no ordering of its own; order_by replaces it.  A term is a field  *)
(* name, descending when prefixed by '-'.  The datastore reads the rows in *)
(* some order (scan), sorts them, keeping the scan order of rows that      *)
(* compare equal, and places NULL before every date (nullsSmallest, as     *)
(* SQLite and MySQL do) or after every date (as PostgreSQL and Oracle do). *)
(***************************************************************************)
\* Meta.ordering as it would be with the descending term.
MetaOrderingDescending == << <<"-", "d", "u", "e", "_", "b", "a", "c", "k">> >>

MetaOrdering == << <<"d", "u", "e", "_", "b", "a", "c", "k">> >>

Descending(term) == term # <<>> /\ term[1] = "-"

ColumnLess(x, y, nullsSmallest) ==
    IF IsNone(x) THEN ~IsNone(y) /\ nullsSmallest
    ELSE IF IsNone(y) THEN ~nullsSmallest
    ELSE Val(x) < Val(y)

\* Every ordering term of this model names the due_back column.
TermLess(term, c, d, nullsSmallest) ==
    IF Descending(term) THEN ColumnLess(d.due_back, c.due_back, nullsSmallest)
    ELSE ColumnLess(c.due_back, d.due_back, nullsSmallest)

RECURSIVE Precedes(_, _, _, _)
Precedes(ordering, c, d, nullsSmallest) ==
    IF ordering = <<>> THEN FALSE
    ELSE \/ TermLess(Head(ordering), c, d, nullsSmallest)
         \/ /\ ~TermLess(Head(ordering), d, c, nullsSmallest)
            /\ Precedes(Tail(ordering), c, d, nullsSmallest)

InsertRow(c, sorted, ordering, nullsSmallest) ==
    LET k == Cardinality({i \in DOMAIN sorted :
                            ~Precedes(ordering, c, sorted[i], nullsSmallest)})
    IN  SubSeq(sorted, 1, k) \o <<c>> \o SubSeq(sorted, k + 1, Len(sorted))

RECURSIVE OrderBy(_, _, _)
OrderBy(scan, ordering, nullsSmallest) ==
    IF scan = <<>> THEN <<>>
    ELSE InsertRow(scan[Len(scan)],
                   OrderBy(SubSeq(scan, 1, Len(scan) - 1), ordering, nullsSmallest),
                   ordering, nullsSmallest)

Scans(table) ==
    {s \in [1..Cardinality(table) -> table] :
        \A i, j \in DOMAIN s : i # j => s[i] # s[j]}

QueryOrdering(order_by) == IF IsNone(order_by) THEN MetaOrdering ELSE Val(order_by)

Query(order_by, scan, nullsSmallest) ==
    /\ scan \in Scans(instances)
    /\ out' = [op |-> "BookInstance.objects", self |-> order_by,
               value |-> OrderBy(scan, QueryOrdering(order_by), nullsSmallest)]
    /\ UNCHANGED <<authors, books, instances, authorSeq, bookSeq>>

(***************************************************************************)
(* __str__ and get_absolute_url.  A call returns a value or raises.        *)
(* reverse() is given the route name and the positional arguments; the     *)
(* routes themselves are defined elsewhere.                                *)
(***************************************************************************)
Returns(v) == [raised |-> "", value |-> v]
Raises(e) == [raised |-> e, value |-> <<>>]

reverse(viewname, args) == Returns([viewname |-> viewname, args |-> args])

BookStr(b) == Returns(b.title)

\* get_absolute_url naming the other route.
BookGetAbsoluteUrlAuthorRoute(b) == reverse("author-detail", <<IntStr(b.id)>>)

BookGetAbsoluteUrl(b) == reverse("book-detail", <<IntStr(b.id)>>)

\* self.book is the referenced Book, or None when the column is NULL; None
\* has no attribute 'title'.
BookInstanceStr(c) ==
    IF IsNone(c.book) THEN Raises("AttributeError")
    ELSE Returns(Format(<<"{", "0", "}", " ", "(", "{", "1", "}", ")">>,
                        <<UUIDStr(c.id), Row(books, Val(c.book)).title>>))

AuthorGetAbsoluteUrl(a) == reverse("author-detail", <<IntStr(a.id)>>)

\* __str__ with the two names in the other order.
AuthorStrFirstLast(a) ==
    Returns(Format(<<"{", "0", "}", ",", " ", "{", "1", "}">>,
                   <<a.first_name, a.last_name>>))

AuthorStr(a) ==
    Returns(Format(<<"{", "0", "}", ",", " ", "{", "1", "}">>,
                   <<a.last_name, a.first_name>>))

Call(op, self, result) ==
    /\ out' = [op |-> op, self |-> self, value |-> result]
    /\ UNCHANGED <<authors, books, instances, authorSeq, bookSeq>>

CallBookStr(id) ==
    id \in Ids(books) /\ Call("Book.__str__", id, BookStr(Row(books, id)))

CallBookGetAbsoluteUrl(id) ==
    /\ id \in Ids(books)
    /\ Call("Book.get_absolute_url", id, BookGetAbsoluteUrl(Row(books, id)))

CallBookInstanceStr(id) ==
    /\ id \in Ids(instances)
    /\ Call("BookInstance.__str__", id, BookInstanceStr(Row(instances, id)))

CallAuthorGetAbsoluteUrl(id) ==
    /\ id \in Ids(authors)
    /\ Call("Author.get_absolute_url", id, AuthorGetAbsoluteUrl(Row(authors, id)))

CallAuthorStr(id) ==
    id \in Ids(authors) /\ Call("Author.__str__", id, AuthorStr(Row(authors, id)))

(***************************************************************************)
(* Inputs.                                                                 *)
(***************************************************************************)
Ann == <<"A", "n", "n">>
Lee == <<"L", "e", "e">>
Emma == <<"E", "m", "m", "a">>
Ulysses == <<"U", "l", "y", "s", "s", "e", "s">>
Imprint == <<"P", "e", "n", "g", "u", "i", "n">>

NameInputs == {<<>>, Ann, Lee, Rep("x", NAME_MAX_LENGTH + 1)}
TitleInputs == {<<>>, Emma, Rep("x", TITLE_MAX_LENGTH + 1)}
IsbnInputs == {<<>>, Rep("9", 10), Rep("9", 13), Rep("9", 14)}
StatusInputs == {<<>>, <<"m">>, <<"o">>, <<"a">>, <<"r">>, <<"x">>, <<"m", "o">>}
OptStatusInputs == {None} \cup {Some(st) : st \in StatusInputs}
OptKeys == {None} \cup {Some(k) : k \in 1..MaxSeq}
OrderByInputs == {None, Some(<< <<"-">> \o MetaOrdering[1] >>)}

NoCall == [op |-> "", self |-> None]

(***************************************************************************)
(* The catalog: authors, books and copies are created and deleted, and a   *)
(* copy is rendered.                                                       *)
(***************************************************************************)
Init ==
    /\ authors = {}
    /\ books = {}
    /\ instances = {}
    /\ authorSeq = 0
    /\ bookSeq = 0
    /\ out = NoCall

Next ==
    \/ /\ Cardinality(authors) < MaxAuthors
       /\ authorSeq < MaxSeq
       /\ \E first \in {Ann}, last \in {<<>>, Lee} :
            CreateAuthor(first, last, None, None)
    \/ \E id \in Ids(authors) : DeleteAuthor(id)
    \/ /\ Cardinality(books) < MaxBooks
       /\ bookSeq < MaxSeq
       /\ \E title \in TitleInputs, author \in OptKeys, isbn \in IsbnInputs :
            CreateBook(title, author, Emma, isbn)
    \/ \E id \in Ids(books) : DeleteBook(id)
    \/ /\ Cardinality(instances) < MaxCopies
       /\ \E id \in UUIDs, book \in OptKeys :
            CreateBookInstance(id, book, Imprint, None, None)
    \/ \E id \in Ids(instances) : DeleteBookInstance(id)
    \/ \E id \in Ids(instances) : CallBookInstanceStr(id)

Spec == Init /\ [][Next]_vars

(***************************************************************************)
(* Loan status: copies are created with or without a status, their status  *)
(* is updated, and they are deleted.                                       *)
(***************************************************************************)
NextStatus ==
    \/ /\ Cardinality(instances) < MaxInstances
       /\ \E id \in UUIDs, due_back \in {None, Some(1)}, status \in OptStatusInputs :
            CreateBookInstance(id, None, Imprint, due_back, status)
    \/ \E id \in Ids(instances), status \in StatusInputs : UpdateStatus(id, status)
    \/ \E id \in Ids(instances) : DeleteBookInstance(id)

SpecStatus == Init /\ [][NextStatus]_vars

(***************************************************************************)
(* Queries: copies with and without a due date are created and deleted,    *)
(* and queried with the default ordering or with one of the query's own.   *)
(***************************************************************************)
NextOrder ==
    \/ /\ Cardinality(instances) < MaxInstances + 1
       /\ \E id \in UUIDs, due_back \in OptDates :
            CreateBookInstance(id, None, Imprint, due_back, None)
    \/ \E id \in Ids(instances) : DeleteBookInstance(id)
    \/ \E order_by \in OrderByInputs, scan \in Scans(instances),
          nullsSmallest \in BOOLEAN :
            Query(order_by, scan, nullsSmallest)

SpecOrder == Init /\ [][NextOrder]_vars

(***************************************************************************)
(* Rendering: the tables hold some authors and books (with keys of one and *)
(* two digits, and authors that differ only in key and dates); records are *)
(* rendered, their URLs are built, and records are deleted.                *)
(***************************************************************************)
AuthorSamples ==
    {[id |-> 1, first_name |-> Ann, last_name |-> Lee,
      date_of_birth |-> None, date_of_death |-> None],
     [id |-> 10, first_name |-> Lee, last_name |-> Ann,
      date_of_birth |-> Some(1), date_of_death |-> Some(2)],
     [id |-> 12, first_name |-> Ann, last_name |-> Lee,
      date_of_birth |-> Some(1), date_of_death |-> None],
     [id |-> 21, first_name |-> Lee, last_name |-> Lee,
      date_of_birth |-> None, date_of_death |-> Some(2)]}

BookSamples(as) ==
    {[id |-> k[1], title |-> k[2], author |-> a, summary |-> Emma,
      isbn |-> Rep("9", ISBN_MAX_LENGTH)] :
        k \in {<<1, Emma>>, <<10, Ulysses>>, <<12, Emma>>},
        a \in {None} \cup {Some(i) : i \in Ids(as)}}

UniqueKeys(table) == \A r, q \in table : r.id = q.id => r = q

LastKey(table) ==
    IF table = {} THEN 0 ELSE CHOOSE m \in Ids(table) : \A i \in Ids(table) : i <= m

InitStr ==
    /\ authors \in {as \in SUBSET AuthorSamples : Cardinality(as) <= MaxRows}
    /\ books \in {bs \in SUBSET BookSamples(authors) :
                    Cardinality(bs) <= MaxRows /\ UniqueKeys(bs)}
    /\ instances = {}
    /\ authorSeq = LastKey(authors)
    /\ bookSeq = LastKey(books)
    /\ out = NoCall

NextStr ==
    \/ \E id \in Ids(authors) : CallAuthorStr(id)
    \/ \E id \in Ids(authors) : CallAuthorGetAbsoluteUrl(id)
    \/ \E id \in Ids(books) : CallBookStr(id)
    \/ \E id \in Ids(books) : CallBookGetAbsoluteUrl(id)
    \/ \E id \in Ids(authors) : DeleteAuthor(id)
    \/ \E id \in Ids(books) : DeleteBook(id)

SpecStr == InitStr /\ [][NextStr]_vars

(***************************************************************************)
(* Properties.                                                             *)
(***************************************************************************)

\* C1: every stored BookInstance has a status that is one of 'm', 'o', 'a',
\* 'r'.
C1_StatusIsAChoice == \A c \in instances : c.status \in StatusChoices

\* C2: the string representation of every BookInstance, also of one whose
\* book is null, is defined and is "{id} ({book.title})".
C2_BookInstanceStrDefined ==
    out.op = "BookInstance.__str__" =>
        LET c == Row(instances, out.self)
        IN  /\ out.value.raised = ""
            /\ ~IsNone(c.book) =>
                 out.value.value = UUIDStr(c.id) \o <<" ", "(">>
                                   \o Row(books, Val(c.book)).title \o <<")">>

NullsFirst(r) ==
    \A i, j \in DOMAIN r : (i < j /\ IsNone(r[j].due_back)) => IsNone(r[i].due_back)

NullsLast(r) ==
    \A i, j \in DOMAIN r : (i < j /\ IsNone(r[i].due_back)) => IsNone(r[j].due_back)

\* C3: a query without an ordering of its own returns the stored
\* BookInstance records in non-decreasing order of due_back: adjacent
\* records with a due_back are in order, and the records without one are
\* together at one end.
C3_DefaultOrdering ==
    (out.op = "BookInstance.objects" /\ IsNone(out.self)) =>
        LET r == out.value
        IN  /\ Len(r) = Cardinality(instances)
            /\ {r[i] : i \in DOMAIN r} = instances
            /\ \A i \in 1..(Len(r) - 1) :
                 (~IsNone(r[i].due_back) /\ ~IsNone(r[i + 1].due_back))
                    => Val(r[i].due_back) <= Val(r[i + 1].due_back)
            /\ NullsFirst(r) \/ NullsLast(r)

C3_Witness ==
    /\ out.op = "BookInstance.objects"
    /\ IsNone(out.self)
    /\ Len(out.value) = 3
    /\ \E i, j, k \in DOMAIN out.value :
         /\ IsNone(out.value[i].due_back)
         /\ ~IsNone(out.value[j].due_back)
         /\ ~IsNone(out.value[k].due_back)
         /\ out.value[j].due_back # out.value[k].due_back

\* C4: the string representation of an Author is last_name, a comma and a
\* space, then first_name, and two authors with the same names have the
\* same representation whatever their keys and dates.
C4_AuthorStr ==
    /\ out.op = "Author.__str__" =>
         LET a == Row(authors, out.self)
         IN  /\ out.value.raised = ""
             /\ out.value.value = a.last_name \o <<",", " ">> \o a.first_name
    /\ \A a, b \in authors :
         (a.first_name = b.first_name /\ a.last_name = b.last_name)
            => AuthorStr(a) = AuthorStr(b)

C4_Witness ==
    /\ out.op = "Author.__str__"
    /\ out.value.value = <<"L", "e", "e", ",", " ", "A", "n", "n">>
    /\ \E a, b \in authors :
         /\ a.id # b.id
         /\ a.date_of_birth # b.date_of_birth
         /\ a.first_name = b.first_name
         /\ a.last_name = b.last_name

\* C5: no two stored BookInstance records have the same id, and no step
\* changes the id of a stored record: a step that keeps the number of
\* records keeps their ids.
C5_UniqueStableId ==
    /\ [](\A c, d \in instances : c.id = d.id => c = d)
    /\ [][Cardinality(instances') = Cardinality(instances)
            => Ids(instances') = Ids(instances)]_vars

C5_Witness ==
    /\ out.op = "BookInstance.save"
    /\ Cardinality(instances) >= 2

\* C6: every stored Book has an isbn of exactly 13 characters.
C6_IsbnFixedLength == \A b \in books : Len(b.isbn) = ISBN_MAX_LENGTH

IsUrlCall(o) == o.op \in {"Book.get_absolute_url", "Author.get_absolute_url"}

RouteOf(op) == IF op = "Book.get_absolute_url" THEN "book-detail" ELSE "author-detail"

C7_UrlOf ==
    IsUrlCall(out) =>
        /\ out.value.raised = ""
        /\ out.value.value.viewname = RouteOf(out.op)
        /\ Len(out.value.value.args) = 1
        /\ out.value.value.args[1] = IntStr(out.self)

C7_Distinct ==
    /\ \A b, c \in books :
         b.id # c.id => BookGetAbsoluteUrl(b).value.args # BookGetAbsoluteUrl(c).value.args
    /\ \A a, b \in authors :
         a.id # b.id => AuthorGetAbsoluteUrl(a).value.args # AuthorGetAbsoluteUrl(b).value.args

\* C7: get_absolute_url of a Book asks for the route 'book-detail', that of
\* an Author for the route 'author-detail', each with one positional
\* argument, the decimal string of the record's id; records of one entity
\* with different ids give different arguments; the call changes no stored
\* record.
C7_AbsoluteUrl ==
    /\ [](C7_UrlOf /\ C7_Distinct)
    /\ [][IsUrlCall(out') => UNCHANGED <<authors, books, instances>>]_vars

C7_Witness ==
    /\ out.op = "Book.get_absolute_url"
    /\ out.value.value.args = << <<"1", "2">> >>
    /\ \E b \in books : b.id = 1

\* C8: a BookInstance created without a status has status 'm', and the
\* status of a stored record changes only by a status update.
C8_DefaultMaintenance ==
    /\ []((out.op = "BookInstance.create" /\ ~out.value)
            => Row(instances, out.self).status = <<"m">>)
    /\ [][\A c \in instances : \A d \in instances' :
            (d.id = c.id /\ d.status # c.status) => out'.op = "BookInstance.save"]_vars

C8_Witness ==
    /\ out.op = "BookInstance.create"
    /\ ~out.value
    /\ \E c \in instances : c.id # out.self /\ c.status = <<"a">>

NoDanglingReference ==
    /\ \A b \in books : IsNone(b.author) \/ Val(b.author) \in Ids(authors)
    /\ \A c \in instances : IsNone(c.book) \/ Val(c.book) \in Ids(books)

AuthorDeleteKeepsBooks ==
    (out'.op = "Author.delete" /\ authors' # authors) =>
        /\ Ids(books') = Ids(books)
        /\ Cardinality(books') = Cardinality(books)
        /\ \A b \in books : b.author = Some(out'.self)
                               => IsNone(Row(books', b.id).author)

BookDeleteKeepsInstances ==
    (out'.op = "Book.delete" /\ books' # books) =>
        /\ Ids(instances') = Ids(instances)
        /\ Cardinality(instances') = Cardinality(instances)
        /\ \A c \in instances : c.book = Some(out'.self)
                                   => IsNone(Row(instances', c.id).book)

\* C9: every Book's author is null or an existing Author and every
\* BookInstance's book is null or an existing Book; deleting an Author
\* deletes no Book and deleting a Book deletes no BookInstance: the records
\* that referenced the deleted one remain, with the reference null.
C9_SetNull ==
    /\ []NoDanglingReference
    /\ [][AuthorDeleteKeepsBooks /\ BookDeleteKeepsInstances]_vars

C9_Witness ==
    /\ out.op = "Author.delete"
    /\ authors = {}
    /\ \E b \in books : IsNone(b.author) /\ b.id = 1
    /\ \E c \in instances : c.book = Some(1)

StatusUpdateAccepted ==
    \A c \in instances : \A st \in StatusChoices :
        c.status \in StatusChoices => ENABLED UpdateStatus(c.id, st)

StatusUpdateFrame ==
    out'.op = "BookInstance.save" =>
        /\ UNCHANGED <<authors, books>>
        /\ Ids(instances') = Ids(instances)
        /\ Cardinality(instances') = Cardinality(instances)
        /\ \A c \in instances :
             LET d == Row(instances', c.id)
             IN  /\ d.book = c.book
                 /\ d.imprint = c.imprint
                 /\ d.due_back = c.due_back
                 /\ c.id # out'.self => d = c

\* C10: from each of the four statuses an update to each of the four is
\* accepted, whatever the due_back, and a status update changes only the
\* status of the record it is applied to.
C10_NoTransitionRule ==
    /\ []StatusUpdateAccepted
    /\ [][StatusUpdateFrame]_vars

C10_Witness ==
    /\ out.op = "BookInstance.save"
    /\ out.value = <<"o">>
    /\ \E c \in instances :
         c.id = out.self /\ c.status = <<"a">> /\ ~IsNone(c.due_back)
    /\ \E c \in instances : c.id # out.self

=============================================================================
